---- MODULE Spec2Model ----
(***************************************************************************)
(* Model of nova/pci/request.py: the PCI alias loader                      *)
(* (get_alias_from_config, memoized by functools.cache), the alias table   *)
(* validators, the flavor alias translator and the VIF binding resolver.   *)
(*                                                                         *)
(* Strings that the code inspects character by character (alias names,     *)
(* vendor/product ids, the flavor's alias string, counts) are sequences of *)
(* one-character strings; strings that the code only compares are TLA+     *)
(* strings.  A Python dict is a function whose DOMAIN is its key set; the  *)
(* alias table, whose iteration order matters, is the sequence of its      *)
(* items in first-insertion order.                                         *)
(***************************************************************************)
EXTENDS Integers, Sequences, FiniteSets, TLC

VARIABLES
    conf_alias,        \* CONF.pci.alias: the raw alias entries, in order
    pci_in_placement,  \* CONF.filter_scheduler.pci_in_placement
    cache,             \* functools.cache of get_alias_from_config: 0 or a table object
    tables,            \* heap of the table objects built so far; an object is its index
    pc,                \* per thread: position inside a get_alias_from_config call
    local,             \* per thread: the table built by the body, awaiting the cache store
    late,              \* per thread: the running call began after some call had returned a table
    ret,               \* per thread: outcome of the last completed call
    first_returned,    \* the table object returned by the first successful call, 0 before it
    alias_pairs,       \* the name:count pairs written in the flavor's alias extra spec
    flavor,            \* the flavor given to get_pci_requests_from_flavor
    affinity_policy,   \* its affinity_policy argument
    uuid_count,        \* number of uuids uuidutils.generate_uuid has produced
    flavor_ret,        \* outcome of the last get_pci_requests_from_flavor call
    vif,               \* the VIF given to get_instance_pci_request_from_vif
    instance,          \* the instance given to it: pci_devices and pci_requests.requests
    compute_node,      \* what ComputeNode.get_by_host_and_nodename answers for the instance
    vif_frame,         \* the get_instance_pci_request_from_vif call: position, locals, what it read
    vif_ret            \* outcome of the get_instance_pci_request_from_vif call

flavorVars == <<alias_pairs, flavor, affinity_policy, uuid_count, flavor_ret>>

vifVars == <<vif, instance, compute_node, vif_frame, vif_ret>>

vars == <<conf_alias, pci_in_placement, cache, tables, pc, local, late, ret,
          first_returned, flavorVars, vifVars>>

----------------------------------------------------------------------------
(* Bounds *)

MaxEntries == 2       \* longest [pci]alias list of the cache specifications
MaxMergeEntries == 2  \* longest [pci]alias list of the merge specification
MaxTableEntries == 4  \* longest [pci]alias list of the validator specification
MaxPairs == 2         \* most name:count pairs in a flavor's alias extra spec
MaxUuids == 4         \* uuids generated before the translator stops being called
MaxDevices == 2       \* most PCI devices bound to the instance
MaxRequests == 2      \* most PCI requests of the instance

----------------------------------------------------------------------------
(* Strings as character sequences *)

\* The characters str.strip() removes: tab, line feed, vertical tab
\* (U+000B), form feed, carriage return, U+001C to U+001F, space, U+0085,
\* U+00A0 and U+1680.  Python also removes U+2000 to U+200A, U+2028, U+2029,
\* U+202F, U+205F and U+3000, which a string of this language cannot hold.
Whitespace ==
    {" ", "\t", "\n", "\r", "\f",
     "", "", "", "", "",
     "", " ", " "}

RECURSIVE LStrip(_)
LStrip(s) ==
    IF s # <<>> /\ Head(s) \in Whitespace THEN LStrip(Tail(s)) ELSE s

RECURSIVE RStrip(_)
RStrip(s) ==
    IF s # <<>> /\ s[Len(s)] \in Whitespace
    THEN RStrip(SubSeq(s, 1, Len(s) - 1))
    ELSE s

\* str.strip()
Strip(s) == RStrip(LStrip(s))

\* ord() of the characters the model uses
Ord(c) ==
    CASE c = "\t" -> 9
      [] c = "\n" -> 10
      [] c = "" -> 11
      [] c = "\f" -> 12
      [] c = "\r" -> 13
      [] c = "" -> 28
      [] c = "" -> 29
      [] c = "" -> 30
      [] c = "" -> 31
      [] c = " " -> 32
      [] c = "+" -> 43
      [] c = "," -> 44
      [] c = "-" -> 45
      [] c = "0" -> 48
      [] c = "1" -> 49
      [] c = "2" -> 50
      [] c = "3" -> 51
      [] c = "4" -> 52
      [] c = "5" -> 53
      [] c = "6" -> 54
      [] c = "7" -> 55
      [] c = "8" -> 56
      [] c = "9" -> 57
      [] c = ":" -> 58
      [] c = "a" -> 97
      [] c = "b" -> 98
      [] c = "x" -> 120
      [] c = "z" -> 122
      [] c = "" -> 133
      [] c = " " -> 160
      [] c = " " -> 5760

\* s < t for Python strings: lexicographic by code point
RECURSIVE StrLess(_, _)
StrLess(s, t) ==
    IF t = <<>> THEN FALSE
    ELSE IF s = <<>> THEN TRUE
    ELSE IF Head(s) = Head(t) THEN StrLess(Tail(s), Tail(t))
    ELSE Ord(Head(s)) < Ord(Head(t))

\* sorted(S) for a set of strings
RECURSIVE Sorted(_)
Sorted(S) ==
    IF S = {} THEN <<>>
    ELSE LET m == CHOOSE x \in S : \A y \in S \ {x} : StrLess(x, y)
         IN <<m>> \o Sorted(S \ {m})

\* ",".join(names)
RECURSIVE JoinComma(_)
JoinComma(names) ==
    IF names = <<>> THEN <<>>
    ELSE IF Len(names) = 1 THEN names[1]
    ELSE names[1] \o <<",">> \o JoinComma(Tail(names))

----------------------------------------------------------------------------
(* Dicts *)

\* the dict d without the keys in ks
Without(d, ks) == [k \in DOMAIN d \ ks |-> d[k]]

----------------------------------------------------------------------------
(* Values of nova.objects.fields and nova.pci.utils used by the schema *)

NUMA_LEGACY == "legacy"
PCINUMAAffinityPolicyALL == {"required", "legacy", "preferred", "socket"}

STANDARD == "type-PCI"
SRIOV_PF == "type-PF"
SRIOV_VF == "type-VF"
VDPA == "vdpa"

HexDigits == {"0", "1", "2", "3", "4", "5", "6", "7", "8", "9",
              "a", "b", "c", "d", "e", "f", "A", "B", "C", "D", "E", "F"}

\* utils.PCI_VENDOR_PATTERN: exactly four hexadecimal digits
MatchesPciVendorPattern(s) ==
    Len(s) = 4 /\ \A i \in 1..4 : s[i] \in HexDigits

NameMinLength == 1
NameMaxLength == 256

AliasSchemaProperties ==
    {"name", "capability_type", "product_id", "vendor_id", "device_type",
     "numa_policy", "resource_class", "traits", "live_migratable"}

\* A raw entry is the dict its JSON text parses to; NotJson is an entry whose
\* text jsonutils.loads cannot parse.
NotJson == [text |-> "{"]

IsJson(raw) == "text" \notin DOMAIN raw

\* jsonschema.validate(spec, _ALIAS_SCHEMA) raises nothing
SchemaValid(spec) ==
    /\ DOMAIN spec \subseteq AliasSchemaProperties
    /\ "name" \in DOMAIN spec
    /\ Len(spec["name"]) >= NameMinLength
    /\ Len(spec["name"]) <= NameMaxLength
    /\ "capability_type" \in DOMAIN spec => spec["capability_type"] = "pci"
    /\ "product_id" \in DOMAIN spec => MatchesPciVendorPattern(spec["product_id"])
    /\ "vendor_id" \in DOMAIN spec => MatchesPciVendorPattern(spec["vendor_id"])
    /\ "device_type" \in DOMAIN spec =>
           spec["device_type"] \in {STANDARD, SRIOV_PF, SRIOV_VF}
    /\ "numa_policy" \in DOMAIN spec =>
           spec["numa_policy"] \in PCINUMAAffinityPolicyALL

\* oslo_utils.strutils.bool_from_string(s, strict=True)
TRUE_STRINGS == {<<"1">>, <<"t">>, <<"t", "r", "u", "e">>, <<"o", "n">>,
                 <<"y">>, <<"y", "e", "s">>}
FALSE_STRINGS == {<<"0">>, <<"f">>, <<"f", "a", "l", "s", "e">>,
                  <<"o", "f", "f">>, <<"n">>, <<"n", "o">>}

\* c.lower() for one ASCII character
LowerChar(c) ==
    CASE c = "A" -> "a" [] c = "B" -> "b" [] c = "C" -> "c" [] c = "D" -> "d"
      [] c = "E" -> "e" [] c = "F" -> "f" [] c = "G" -> "g" [] c = "H" -> "h"
      [] c = "I" -> "i" [] c = "J" -> "j" [] c = "K" -> "k" [] c = "L" -> "l"
      [] c = "M" -> "m" [] c = "N" -> "n" [] c = "O" -> "o" [] c = "P" -> "p"
      [] c = "Q" -> "q" [] c = "R" -> "r" [] c = "S" -> "s" [] c = "T" -> "t"
      [] c = "U" -> "u" [] c = "V" -> "v" [] c = "W" -> "w" [] c = "X" -> "x"
      [] c = "Y" -> "y" [] c = "Z" -> "z"
      [] OTHER -> c

\* s.strip().lower()
StripLower(s) ==
    LET t == Strip(s) IN [i \in 1..Len(t) |-> LowerChar(t[i])]

BoolFromStringOk(s) == StripLower(s) \in TRUE_STRINGS \cup FALSE_STRINGS

BoolFromString(s) == StripLower(s) \in TRUE_STRINGS

----------------------------------------------------------------------------
(* Exceptions *)

\* exception.PciInvalidAlias(reason=fmt % arg) or PciInvalidAlias(fmt % arg)
PciInvalidAlias(fmt, arg) == [exc |-> "PciInvalidAlias", fmt |-> fmt, arg |-> arg]

NumaMismatchFmt == "NUMA policy mismatch for alias '%s'"
DevTypeMismatchFmt == "Device type mismatch for alias '%s'"
KeyErrorDevType == "'dev_type'"
MultispecFmt == "The PCI alias(es) %s have multiple specs but [filter_scheduler]pci_in_placement is True. The PCI in Placement feature only supports one spec per alias. You can assign the same resource_class to multiple [pci]device_spec matchers to allow using different devices for the same alias."
NoIdsOrRcFmt == "The PCI alias(es) %s does not have vendor_id and product_id fields set or resource_class field set."
NoIdsFmt == "The PCI alias(es) %s does not have vendor_id and product_id fields set."

NoError == [exc |-> "None", fmt |-> "", arg |-> <<>>]

Ok(aliases) == [status |-> "ok", aliases |-> aliases, error |-> NoError]
Raise(e) == [status |-> "error", aliases |-> <<>>, error |-> e]

----------------------------------------------------------------------------
(* get_alias_from_config: the loop over CONF.pci.alias *)

\* position of the item of key name in the table, 0 when absent
IndexOf(aliases, name) ==
    IF \E i \in 1..Len(aliases) : aliases[i].name = name
    THEN CHOOSE i \in 1..Len(aliases) : aliases[i].name = name
    ELSE 0

\* the spec dict stored for one entry, after the pops and renames
StoredSpec(spec) ==
    LET rest == Without(spec, {"name", "numa_policy", "device_type",
                               "live_migratable"})
        dev == IF "device_type" \in DOMAIN spec
               THEN "dev_type" :> spec["device_type"]
               ELSE <<>>
        lm == IF "live_migratable" \in DOMAIN spec
              THEN "live_migratable" :>
                       (IF BoolFromString(spec["live_migratable"])
                        THEN <<"t", "r", "u", "e">>
                        ELSE <<"f", "a", "l", "s", "e">>)
              ELSE <<>>
    IN IF DOMAIN dev = {} /\ DOMAIN lm = {} THEN rest
       ELSE IF DOMAIN dev = {} THEN rest @@ lm
       ELSE IF DOMAIN lm = {} THEN rest @@ dev
       ELSE rest @@ dev @@ lm

\* one iteration of the for loop: the table after the entry, or the exception
MergeEntry(aliases, raw) ==
    IF ~IsJson(raw)
    THEN Raise(PciInvalidAlias("json.JSONDecodeError", <<>>))
    ELSE IF ~SchemaValid(raw)
    THEN Raise(PciInvalidAlias("jsonschema.ValidationError", <<>>))
    ELSE IF "live_migratable" \in DOMAIN raw
            /\ ~BoolFromStringOk(raw["live_migratable"])
    THEN Raise(PciInvalidAlias("ValueError: Unrecognized value", <<>>))
    ELSE
    LET name == Strip(raw["name"])
        numa_policy == IF "numa_policy" \in DOMAIN raw
                       THEN raw["numa_policy"] ELSE NUMA_LEGACY
        spec == StoredSpec(raw)
        i == IndexOf(aliases, name)
    IN IF i = 0
       THEN Ok(Append(aliases,
                      [name |-> name, numa_policy |-> numa_policy,
                       specs |-> <<spec>>]))
       ELSE IF aliases[i].numa_policy # numa_policy
       THEN Raise(PciInvalidAlias(NumaMismatchFmt, name))
       ELSE IF "dev_type" \notin DOMAIN aliases[i].specs[1]
               \/ "dev_type" \notin DOMAIN spec
       THEN Raise(PciInvalidAlias(KeyErrorDevType, <<>>))
       ELSE IF aliases[i].specs[1]["dev_type"] # spec["dev_type"]
       THEN Raise(PciInvalidAlias(DevTypeMismatchFmt, name))
       ELSE Ok([aliases EXCEPT ![i].specs = Append(@, spec)])

RECURSIVE MergeFrom(_, _, _)
MergeFrom(jaliases, k, aliases) ==
    IF k > Len(jaliases) THEN Ok(aliases)
    ELSE LET r == MergeEntry(aliases, jaliases[k])
         IN IF r.status = "error" THEN r
            ELSE MergeFrom(jaliases, k + 1, r.aliases)

MergeAliases(jaliases) == MergeFrom(jaliases, 1, <<>>)

----------------------------------------------------------------------------
(* The table validators *)

\* the keys of the items, in table order
NamesOf(items) == [i \in 1..Len(items) |-> items[i].name]

HasMultipleSpecs(item) == Len(item.specs) > 1

\* _validate_multispec: "ok", or the exception raised
ValidateMultispec(aliases, strict) ==
    IF strict
    THEN LET alias_with_multiple_specs ==
                 NamesOf(SelectSeq(aliases, HasMultipleSpecs))
         IN IF alias_with_multiple_specs # <<>>
            THEN Raise(PciInvalidAlias(MultispecFmt,
                                       JoinComma(alias_with_multiple_specs)))
            ELSE Ok(aliases)
    ELSE Ok(aliases)

HasIds(spec) == "vendor_id" \in DOMAIN spec /\ "product_id" \in DOMAIN spec
HasRc(spec) == "resource_class" \in DOMAIN spec

\* _validate_required_ids, but a resource_class stands in for the ids in both
\* modes
ValidateRequiredIdsRcAlways(aliases, strict) ==
    LET alias_without_ids_or_rc ==
            {aliases[i].name : i \in
                {j \in 1..Len(aliases) :
                    \E n \in 1..Len(aliases[j].specs) :
                        ~HasIds(aliases[j].specs[n])
                        /\ ~HasRc(aliases[j].specs[n])}}
    IN IF alias_without_ids_or_rc # {}
       THEN Raise(PciInvalidAlias(IF strict THEN NoIdsOrRcFmt ELSE NoIdsFmt,
                                  JoinComma(Sorted(alias_without_ids_or_rc))))
       ELSE Ok(aliases)

\* _validate_required_ids
ValidateRequiredIds(aliases, strict) ==
    IF strict
    THEN LET alias_without_ids_or_rc ==
                 {aliases[i].name : i \in
                     {j \in 1..Len(aliases) :
                         \E n \in 1..Len(aliases[j].specs) :
                             ~HasIds(aliases[j].specs[n])
                             /\ ~HasRc(aliases[j].specs[n])}}
         IN IF alias_without_ids_or_rc # {}
            THEN Raise(PciInvalidAlias(NoIdsOrRcFmt,
                                       JoinComma(Sorted(alias_without_ids_or_rc))))
            ELSE Ok(aliases)
    ELSE LET alias_without_ids ==
                 {aliases[i].name : i \in
                     {j \in 1..Len(aliases) :
                         \E n \in 1..Len(aliases[j].specs) :
                             ~HasIds(aliases[j].specs[n])}}
         IN IF alias_without_ids # {}
            THEN Raise(PciInvalidAlias(NoIdsFmt,
                                       JoinComma(Sorted(alias_without_ids))))
            ELSE Ok(aliases)

\* _validate_aliases, but with the required-identifier check first
ValidateAliasesIdsFirst(aliases, strict) ==
    LET m == ValidateRequiredIds(aliases, strict)
    IN IF m.status = "error" THEN m ELSE ValidateMultispec(aliases, strict)

\* _validate_aliases
ValidateAliases(aliases, strict) ==
    LET m == ValidateMultispec(aliases, strict)
    IN IF m.status = "error" THEN m ELSE ValidateRequiredIds(aliases, strict)

\* the body of get_alias_from_config, without the memoization
GetAliasFromConfigBody(jaliases, strict) ==
    LET merged == MergeAliases(jaliases)
    IN IF merged.status = "error" THEN merged
       ELSE ValidateAliases(merged.aliases, strict)

----------------------------------------------------------------------------
(* Inputs *)

\* all lists of at most n elements of E
Lists(E, n) == UNION {[1..k -> E] : k \in 0..n}

NameA == <<"a">>
NameSpaceA == <<" ", "a">>
NameB == <<"b">>
Intel == <<"8", "0", "8", "6">>
Prod1 == <<"0", "4", "4", "2">>
Prod2 == <<"0", "4", "4", "3">>

Ids(p) == ("vendor_id" :> Intel) @@ ("product_id" :> p)

\* the [pci]alias entries of the cache specifications
CacheEntries ==
    { ("name" :> NameA) @@ ("device_type" :> STANDARD) @@ Ids(Prod1),
      ("name" :> NameSpaceA) @@ ("device_type" :> STANDARD) @@ Ids(Prod2),
      ("name" :> NameB) @@ ("resource_class" :> "CUSTOM_GPU"),
      ("name" :> NameA) @@ ("device_type" :> STANDARD) @@ Ids(Prod1)
          @@ ("numa_policy" :> "required"),
      NotJson }

\* the JSON object with the given name, body fields and, unless "absent",
\* numa_policy and device_type
Entry(name, numa, dev, body) ==
    LET n == ("name" :> name) @@ body
        np == IF numa = "absent" THEN n ELSE n @@ ("numa_policy" :> numa)
    IN IF dev = "absent" THEN np ELSE np @@ ("device_type" :> dev)

\* the [pci]alias entries of the merge specification: all schema-valid
MergeEntries ==
    { Entry(name, numa, dev, Ids(p)) :
        name \in {NameA, NameSpaceA, NameB},
        numa \in {"absent", "legacy", "required"},
        dev \in {"absent", STANDARD, SRIOV_PF},
        p \in {Prod1, Prod2} }

\* the [pci]alias entries of the validator specification: they always merge
TableEntries ==
    { Entry(name, "absent", STANDARD, body) :
        name \in {NameA, NameB},
        body \in { Ids(Prod1),
                   "resource_class" :> "CUSTOM_GPU",
                   "vendor_id" :> Intel } }

\* names at the limits of the schema's minLength and maxLength
NameBlank == <<" ">>
NameReturnA == <<"a", "\r">>
NameVerticalTabA == <<"", "a", "">>
NameEmpty == <<>>
NameLongest == [i \in 1..NameMaxLength |-> "a"]
NameTooLong == [i \in 1..(NameMaxLength + 1) |-> "a"]

\* live_migratable as written in entries: "TRUE", " yes", "off", "maybe"
LiveMigratableValues ==
    {<<"T", "R", "U", "E">>, <<" ", "y", "e", "s">>, <<"o", "f", "f">>,
     <<"m", "a", "y", "b", "e">>}

\* the [pci]alias entries of the name specification: they differ in the name
\* or in live_migratable
NameEntries ==
    { Entry(name, "absent", STANDARD, Ids(Prod1)) :
        name \in {NameA, NameSpaceA, NameReturnA, NameVerticalTabA, NameBlank,
                  NameEmpty, NameLongest, NameTooLong} }
    \cup { Entry(NameB, "absent", STANDARD,
                 Ids(Prod1) @@ ("live_migratable" :> v)) :
             v \in LiveMigratableValues }

----------------------------------------------------------------------------
(* _translate_alias_to_requests *)

\* s.split(sep) for a one-character separator
RECURSIVE Split(_, _)
Split(s, sep) ==
    IF \E i \in 1..Len(s) : s[i] = sep
    THEN LET i == CHOOSE i \in 1..Len(s) :
                      s[i] = sep /\ \A j \in 1..(i - 1) : s[j] # sep
         IN <<SubSeq(s, 1, i - 1)>> \o Split(SubSeq(s, i + 1, Len(s)), sep)
    ELSE <<s>>

\* The decimal digits int() takes, one tuple per script with the digits 0 to
\* 9 in order: ASCII, then U+06F0, U+07C0, U+09E6, U+0AE6, U+0BE6, U+0CE6,
\* U+0DE6, U+0ED0, U+1090, U+17E0, U+19D0, U+1A80, U+1A90, U+1BB0, U+A8D0,
\* U+A9D0, U+A9F0 and U+ABF0.  int() takes the digits of every other script
\* as well, which a string of this language cannot hold.
DigitBlocks ==
    <<
      <<"0", "1", "2", "3", "4", "5", "6", "7", "8", "9">>,
      <<"۰", "۱", "۲", "۳", "۴", "۵", "۶", "۷", "۸", "۹">>,
      <<"߀", "߁", "߂", "߃", "߄", "߅", "߆", "߇", "߈", "߉">>,
      <<"০", "১", "২", "৩", "৪", "৫", "৬", "৭", "৮", "৯">>,
      <<"૦", "૧", "૨", "૩", "૪", "૫", "૬", "૭", "૮", "૯">>,
      <<"௦", "௧", "௨", "௩", "௪", "௫", "௬", "௭", "௮", "௯">>,
      <<"೦", "೧", "೨", "೩", "೪", "೫", "೬", "೭", "೮", "೯">>,
      <<"෦", "෧", "෨", "෩", "෪", "෫", "෬", "෭", "෮", "෯">>,
      <<"໐", "໑", "໒", "໓", "໔", "໕", "໖", "໗", "໘", "໙">>,
      <<"႐", "႑", "႒", "႓", "႔", "႕", "႖", "႗", "႘", "႙">>,
      <<"០", "១", "២", "៣", "៤", "៥", "៦", "៧", "៨", "៩">>,
      <<"᧐", "᧑", "᧒", "᧓", "᧔", "᧕", "᧖", "᧗", "᧘", "᧙">>,
      <<"᪀", "᪁", "᪂", "᪃", "᪄", "᪅", "᪆", "᪇", "᪈", "᪉">>,
      <<"᪐", "᪑", "᪒", "᪓", "᪔", "᪕", "᪖", "᪗", "᪘", "᪙">>,
      <<"᮰", "᮱", "᮲", "᮳", "᮴", "᮵", "᮶", "᮷", "᮸", "᮹">>,
      <<"꣐", "꣑", "꣒", "꣓", "꣔", "꣕", "꣖", "꣗", "꣘", "꣙">>,
      <<"꧐", "꧑", "꧒", "꧓", "꧔", "꧕", "꧖", "꧗", "꧘", "꧙">>,
      <<"꧰", "꧱", "꧲", "꧳", "꧴", "꧵", "꧶", "꧷", "꧸", "꧹">>,
      <<"꯰", "꯱", "꯲", "꯳", "꯴", "꯵", "꯶", "꯷", "꯸", "꯹">>
    >>

DecimalDigits ==
    {DigitBlocks[b][d] : b \in 1..Len(DigitBlocks), d \in 1..10}

\* the value of a decimal digit: its place in its script
DigitValue(c) ==
    LET b == CHOOSE k \in 1..Len(DigitBlocks) :
                 \E d \in 1..10 : DigitBlocks[k][d] = c
    IN (CHOOSE d \in 1..10 : DigitBlocks[b][d] = c) - 1

\* sys.get_int_max_str_digits(), by default: int() refuses a literal of more
\* digits
IntMaxStrDigits == 4300

\* the digits of an int() literal: digits, single underscores between them,
\* and no more digits than the limit
DigitsOk(body) ==
    /\ body # <<>>
    /\ \A i \in 1..Len(body) : body[i] \in DecimalDigits \cup {"_"}
    /\ body[1] # "_" /\ body[Len(body)] # "_"
    /\ \A i \in 1..(Len(body) - 1) : ~(body[i] = "_" /\ body[i + 1] = "_")
    /\ Cardinality({i \in 1..Len(body) : body[i] # "_"}) <= IntMaxStrDigits

RECURSIVE DigitsValue(_, _)
DigitsValue(body, acc) ==
    IF body = <<>> THEN acc
    ELSE IF Head(body) = "_" THEN DigitsValue(Tail(body), acc)
    ELSE DigitsValue(Tail(body), 10 * acc + DigitValue(Head(body)))

\* the literal from its first digit other than zero on: leading zeros and
\* the underscores among them add nothing to the value
Significant(body) ==
    LET S == {i \in 1..Len(body) :
                 body[i] # "_" /\ DigitValue(body[i]) # 0}
    IN IF S = {} THEN <<>>
       ELSE SubSeq(body, CHOOSE i \in S : \A j \in S : i <= j, Len(body))

Unsigned(s) == IF s # <<>> /\ Head(s) \in {"+", "-"} THEN Tail(s) ELSE s

\* The characters int() skips around the literal: the ASCII ones of C's
\* isspace (U+001C to U+001F are not among them) and the Unicode spaces
\* above U+007F, which int() first turns into spaces; of these a string of
\* this language holds U+0085, U+00A0 and U+1680.
IntWhitespace ==
    {" ", "\t", "\n", "\r", "\f", "", "", " ", " "}

RECURSIVE IntLStrip(_)
IntLStrip(s) ==
    IF s # <<>> /\ Head(s) \in IntWhitespace THEN IntLStrip(Tail(s)) ELSE s

RECURSIVE IntRStrip(_)
IntRStrip(s) ==
    IF s # <<>> /\ s[Len(s)] \in IntWhitespace
    THEN IntRStrip(SubSeq(s, 1, Len(s) - 1))
    ELSE s

\* the literal int() parses
IntStrip(s) == IntRStrip(IntLStrip(s))

\* int(s) raises no ValueError
IntOk(s) == DigitsOk(Unsigned(IntStrip(s)))

\* int(s)
IntOf(s) ==
    LET t == IntStrip(s)
        v == DigitsValue(Significant(Unsigned(t)), 0)
    IN IF Head(t) = "-" THEN 0 - v ELSE v

PciRequestAliasNotDefined(alias) ==
    [exc |-> "PciRequestAliasNotDefined",
     fmt |-> "PCI alias %(alias)s is not defined", arg |-> alias]

ValueError(msg) == [exc |-> "ValueError", fmt |-> msg, arg |-> <<>>]

\* None, or a string
None == "None"

\* a or b, but the first operand is ignored
OrElseSecond(a, b) == b

\* a or b, for a None or a string
OrElse(a, b) == IF a = None \/ a = "" THEN b ELSE a

\* the outcome of a translation: the requests, or the exception, and the
\* number of uuids produced by then
Requests(requests, uuids) ==
    [status |-> "ok", requests |-> requests, error |-> NoError, uuids |-> uuids]

Failure(e, uuids) ==
    [status |-> "error", requests |-> <<>>, error |-> e, uuids |-> uuids]

\* the for loop, but with the count converted before the alias is looked up
RECURSIVE TranslateFromCountFirst(_, _, _, _, _, _)
TranslateFromCountFirst(pci_aliases, parts, k, policy_arg, pci_requests, uuids) ==
    IF k > Len(parts) THEN Requests(pci_requests, uuids)
    ELSE IF Len(parts[k]) # 2
    THEN Failure(ValueError("unpack: expected 2 values"), uuids)
    ELSE
    LET name == Strip(parts[k][1])
        count == parts[k][2]
        i == IndexOf(pci_aliases, name)
    IN IF ~IntOk(count)
       THEN Failure(ValueError("invalid literal for int()"), uuids)
       ELSE IF i = 0 THEN Failure(PciRequestAliasNotDefined(name), uuids)
       ELSE TranslateFromCountFirst(pci_aliases, parts, k + 1, policy_arg,
                Append(pci_requests,
                       [count |-> IntOf(count),
                        spec |-> pci_aliases[i].specs,
                        alias_name |-> name,
                        numa_policy |-> OrElse(policy_arg,
                                               pci_aliases[i].numa_policy),
                        request_id |-> uuids + 1]),
                uuids + 1)

\* the for loop of _translate_alias_to_requests from the k-th pair on
RECURSIVE TranslateFrom(_, _, _, _, _, _)
TranslateFrom(pci_aliases, parts, k, policy_arg, pci_requests, uuids) ==
    IF k > Len(parts) THEN Requests(pci_requests, uuids)
    ELSE IF Len(parts[k]) # 2
    THEN Failure(ValueError("unpack: expected 2 values"), uuids)
    ELSE
    LET name == Strip(parts[k][1])
        count == parts[k][2]
        i == IndexOf(pci_aliases, name)
    IN IF i = 0 THEN Failure(PciRequestAliasNotDefined(name), uuids)
       ELSE IF ~IntOk(count)
       THEN Failure(ValueError("invalid literal for int()"), uuids)
       ELSE TranslateFrom(pci_aliases, parts, k + 1, policy_arg,
                Append(pci_requests,
                       [count |-> IntOf(count),
                        spec |-> pci_aliases[i].specs,
                        alias_name |-> name,
                        numa_policy |-> OrElse(policy_arg,
                                               pci_aliases[i].numa_policy),
                        request_id |-> uuids + 1]),
                uuids + 1)

\* _translate_alias_to_requests, given the table get_alias_from_config returned
TranslateAliasToRequests(pci_aliases, alias_spec, policy_arg, uuids) ==
    LET specs == Split(alias_spec, ",")
        parts == [i \in 1..Len(specs) |-> Split(specs[i], ":")]
    IN TranslateFrom(pci_aliases, parts, 1, policy_arg, <<>>, uuids)

AliasKey == "pci_passthrough:alias"

\* the flavor's extra spec names PCI aliases
HasAliasSpec(f) ==
    "extra_specs" \in DOMAIN f /\ AliasKey \in DOMAIN f["extra_specs"]

NoFlavorReturn == [status |-> "none", requests |-> <<>>, error |-> NoError]

(* Flavors *)

\* name:count,name:count,... for pairs given as lists of fields
RECURSIVE JoinWith(_, _)
JoinWith(fields, sep) ==
    IF fields = <<>> THEN <<>>
    ELSE IF Len(fields) = 1 THEN fields[1]
    ELSE fields[1] \o <<sep>> \o JoinWith(Tail(fields), sep)

Render(pairs) ==
    JoinWith([i \in 1..Len(pairs) |-> JoinWith(pairs[i], ":")], ",")

NamePaddedZ == <<"z", " ">>
NamePaddedB == <<" ", "b", " ">>

\* the count 3 written as a space and U+06F3 (EXTENDED ARABIC-INDIC DIGIT
\* THREE), and the count "2" followed by U+001C, which str.strip() would trim
\* and int() refuses, and a count of one digit more than int() takes
CountPadded == <<" ", "۳">>
CountTooLong == [i \in 1..(IntMaxStrDigits + 1) |-> "0"]
CountSeparated == <<"2", "">>

\* what may stand between two commas: name:count with padded or plain, defined
\* or undefined names and counts that int() takes or refuses, or a name
\* alone, or three fields
FlavorPairs ==
    { <<NameA, <<"2">>>>, <<NameA, <<"0">>>>, <<NameA, CountSeparated>>,
      <<NamePaddedB, CountPadded>>,
      <<NamePaddedZ, <<"2">>>>, <<NamePaddedZ, <<"x">>>>,
      <<NameA>>, <<NameA, <<"1">>, <<"2">>>> }

\* the alias string of one pair whose count int() refuses for its length
LongCountPairs == {<<<<NameA, CountTooLong>>>>}

FlavorWithout == [flavorid |-> "m1.small"]
FlavorOtherSpecs == [flavorid |-> "m1.small",
                     extra_specs |-> [k \in {"hw:cpu_policy"} |-> <<"x">>]]
FlavorWith(alias_spec) ==
    [flavorid |-> "m1.small",
     extra_specs |-> [k \in {AliasKey} |-> alias_spec]]

\* the [pci]alias entries of the translator specification
FlavorEntries ==
    { Entry(NameA, "required", STANDARD, Ids(Prod1)),
      Entry(NameSpaceA, "required", STANDARD, Ids(Prod2)),
      Entry(NameB, "absent", "absent", Ids(Prod1)) }

----------------------------------------------------------------------------
(* get_instance_pci_request_from_vif *)

\* vif['profile']: None or a dict
ProfileNone == [type |-> "NoneType"]
ProfileDict(items) == [type |-> "dict", items |-> items]

\* bool(profile)
ProfileTruthy(profile) ==
    profile.type = "dict" /\ DOMAIN profile.items # {}

\* vif['profile'].get('pci_slot') if vif['profile'] else None
VifPciDevAddr(v) ==
    IF ProfileTruthy(v.profile) /\ "pci_slot" \in DOMAIN v.profile.items
    THEN v.profile.items["pci_slot"]
    ELSE None

NoRequest == [request_id |-> "", alias_name |-> ""]
NoVifError == [exc |-> "None", pci_slot |-> "", node_id |-> 0]

\* The outcome of the call: the request returned (value "request") or None
\* (value "None"), or the exception; and what the call touched on the way:
\* the compute-node lookup, instance.pci_devices, instance.pci_requests.
VifOutcome(status, value, request, error, looked_up, read_devices, read_requests) ==
    [status |-> status, value |-> value, request |-> request, error |-> error,
     looked_up |-> looked_up, read_devices |-> read_devices,
     read_requests |-> read_requests]

NoVifReturn == VifOutcome("none", "None", NoRequest, NoVifError, FALSE, FALSE, FALSE)

\* FirstIndex, but the loop does not stop at the first position
LastIndex(S) ==
    IF S = {} THEN 0 ELSE CHOOSE i \in S : \A j \in S : i >= j

\* the first of the list positions in S, 0 if there is none: where a for loop
\* over the list stops
FirstIndex(S) ==
    IF S = {} THEN 0 ELSE CHOOSE i \in S : \A j \in S : i <= j

NoDevice == [compute_node_id |-> 0, address |-> "", request_id |-> ""]

\* The frame of the call: where it stands, its local variables, and the
\* values it has read from the VIF and the instance so far (the profile at
\* lines 288-289, instance.pci_devices at line 307, the request list at
\* line 315).
NoVifFrame ==
    [pc |-> "start", vif_pci_dev_addr |-> None, cn_id |-> 0,
     found_pci_dev |-> NoDevice, profile |-> ProfileNone,
     pci_devices |-> <<>>, pci_requests |-> <<>>]

(* VIFs, instances and compute nodes *)

EmptyDict == [k \in {} |-> ""]

Vifs ==
    { [profile |-> ProfileNone],
      [profile |-> ProfileDict(EmptyDict)],
      [profile |-> ProfileDict([k \in {"physical_network"} |-> "physnet0"])],
      [profile |-> ProfileDict([k \in {"pci_slot"} |-> ""])],
      [profile |-> ProfileDict([k \in {"pci_slot"} |-> "0000:0a:00.1"])],
      [profile |-> ProfileDict([k \in {"pci_slot", "physical_network"} |->
                                   IF k = "pci_slot" THEN "0000:0a:00.2"
                                   ELSE "physnet0"])] }

PciDevices ==
    [compute_node_id : {1, 2},
     address : {"0000:0a:00.1", "0000:0a:00.2"},
     request_id : {"r1", "r2"}]

InstanceRequests == [request_id : {"r1", "r3"}, alias_name : {"x", "y"}]

ComputeNodes == {[found |-> FALSE, id |-> 0], [found |-> TRUE, id |-> 1],
                 [found |-> TRUE, id |-> 2]}

----------------------------------------------------------------------------
(* The memoized get_alias_from_config, called from threads *)

Threads == {1, 2}

\* What a caller saw of its last completed call: the table object returned or
\* the exception raised, whether the call ran the wrapped function (computed),
\* whether it began after some call had returned a table (late), and how the
\* caller's call before it ended (prev).
NoReturn == [status |-> "none", obj |-> 0, error |-> NoError,
             computed |-> FALSE, late |-> FALSE, prev |-> "none"]

Returned(t, obj, computed, isLate) ==
    [status |-> "ok", obj |-> obj, error |-> NoError,
     computed |-> computed, late |-> isLate, prev |-> ret[t].status]

Raised(t, e, isLate) ==
    [status |-> "error", obj |-> 0, error |-> e,
     computed |-> TRUE, late |-> isLate, prev |-> ret[t].status]

Idle == \A t \in Threads : pc[t] = "idle"

\* the call enters the functools.cache wrapper: a hit returns the cached object
Call(t) ==
    /\ pc[t] = "idle"
    /\ IF cache # 0
       THEN /\ ret' = [ret EXCEPT ![t] =
                          Returned(t, cache, FALSE, first_returned # 0)]
            /\ first_returned' =
                   IF first_returned = 0 THEN cache ELSE first_returned
            /\ UNCHANGED <<pc, late>>
       ELSE /\ pc' = [pc EXCEPT ![t] = "body"]
            /\ late' = [late EXCEPT ![t] = first_returned # 0]
            /\ UNCHANGED <<ret, first_returned>>
    /\ UNCHANGED <<conf_alias, pci_in_placement, cache, tables, local>>
    /\ UNCHANGED <<flavorVars, vifVars>>

\* Body, but a failed computation leaves the partly built table in the cache
BodyCachingFailure(t) ==
    /\ pc[t] = "body"
    /\ LET r == GetAliasFromConfigBody(conf_alias, pci_in_placement)
       IN IF r.status = "ok"
          THEN /\ tables' = Append(tables, r.aliases)
               /\ local' = [local EXCEPT ![t] = Len(tables) + 1]
               /\ pc' = [pc EXCEPT ![t] = "store"]
               /\ UNCHANGED <<ret, cache>>
          ELSE /\ ret' = [ret EXCEPT ![t] = Raised(t, r.error, late[t])]
               /\ pc' = [pc EXCEPT ![t] = "idle"]
               /\ tables' = Append(tables, <<>>)
               /\ cache' = Len(tables) + 1
               /\ UNCHANGED local
    /\ UNCHANGED <<conf_alias, pci_in_placement, late, first_returned>>
    /\ UNCHANGED <<flavorVars, vifVars>>

\* the wrapped function runs: it builds a new table, or raises
Body(t) ==
    /\ pc[t] = "body"
    /\ LET r == GetAliasFromConfigBody(conf_alias, pci_in_placement)
       IN IF r.status = "ok"
          THEN /\ tables' = Append(tables, r.aliases)
               /\ local' = [local EXCEPT ![t] = Len(tables) + 1]
               /\ pc' = [pc EXCEPT ![t] = "store"]
               /\ UNCHANGED ret
          ELSE /\ ret' = [ret EXCEPT ![t] = Raised(t, r.error, late[t])]
               /\ pc' = [pc EXCEPT ![t] = "idle"]
               /\ UNCHANGED <<tables, local>>
    /\ UNCHANGED <<conf_alias, pci_in_placement, cache, late, first_returned>>
    /\ UNCHANGED <<flavorVars, vifVars>>

\* Store, but the result is returned without being put in the cache
StoreWithoutCaching(t) ==
    /\ pc[t] = "store"
    /\ ret' = [ret EXCEPT ![t] = Returned(t, local[t], TRUE, late[t])]
    /\ first_returned' = IF first_returned = 0 THEN local[t] ELSE first_returned
    /\ pc' = [pc EXCEPT ![t] = "idle"]
    /\ local' = [local EXCEPT ![t] = 0]
    /\ UNCHANGED <<conf_alias, pci_in_placement, cache, tables, late>>
    /\ UNCHANGED <<flavorVars, vifVars>>

\* the wrapper stores the result under the (empty) key and returns it
Store(t) ==
    /\ pc[t] = "store"
    /\ cache' = local[t]
    /\ ret' = [ret EXCEPT ![t] = Returned(t, local[t], TRUE, late[t])]
    /\ first_returned' = IF first_returned = 0 THEN local[t] ELSE first_returned
    /\ pc' = [pc EXCEPT ![t] = "idle"]
    /\ local' = [local EXCEPT ![t] = 0]
    /\ UNCHANGED <<conf_alias, pci_in_placement, tables, late>>
    /\ UNCHANGED <<flavorVars, vifVars>>

\* between calls, the operator adds an entry to [pci]alias
AppendAlias(e) ==
    /\ Idle
    /\ Len(conf_alias) < MaxEntries
    /\ conf_alias' = Append(conf_alias, e)
    /\ UNCHANGED <<pci_in_placement, cache, tables, pc, local, late, ret,
                   first_returned, flavorVars, vifVars>>

\* between calls, the operator removes the last entry of [pci]alias
DropAlias ==
    /\ Idle
    /\ conf_alias # <<>>
    /\ conf_alias' = SubSeq(conf_alias, 1, Len(conf_alias) - 1)
    /\ UNCHANGED <<pci_in_placement, cache, tables, pc, local, late, ret,
                   first_returned, flavorVars, vifVars>>

\* between calls, the operator sets [filter_scheduler]pci_in_placement
SetPciInPlacement(b) ==
    /\ Idle
    /\ pci_in_placement # b
    /\ pci_in_placement' = b
    /\ UNCHANGED <<conf_alias, cache, tables, pc, local, late, ret,
                   first_returned, flavorVars, vifVars>>

InitProcess ==
    /\ cache = 0
    /\ tables = <<>>
    /\ pc = [t \in Threads |-> "idle"]
    /\ local = [t \in Threads |-> 0]
    /\ late = [t \in Threads |-> FALSE]
    /\ ret = [t \in Threads |-> NoReturn]
    /\ first_returned = 0

\* no flavor is being translated
InitNoFlavor ==
    /\ alias_pairs = <<>>
    /\ flavor = FlavorWithout
    /\ affinity_policy = None
    /\ uuid_count = 0
    /\ flavor_ret = NoFlavorReturn

\* no VIF is being resolved
InitNoVif ==
    /\ vif = [profile |-> ProfileNone]
    /\ instance = [pci_devices |-> <<>>, pci_requests |-> <<>>]
    /\ compute_node = [found |-> FALSE, id |-> 0]
    /\ vif_frame = NoVifFrame
    /\ vif_ret = NoVifReturn

Init ==
    /\ conf_alias \in Lists(CacheEntries, MaxEntries)
    /\ pci_in_placement \in BOOLEAN
    /\ InitProcess
    /\ InitNoFlavor
    /\ InitNoVif

\* one thread calls get_alias_from_config again and again; the configuration
\* changes between calls
Next ==
    \/ Call(1)
    \/ Body(1)
    \/ Store(1)
    \/ \E e \in CacheEntries : AppendAlias(e)
    \/ DropAlias
    \/ \E b \in BOOLEAN : SetPciInPlacement(b)

Spec == Init /\ [][Next]_vars

\* several threads call get_alias_from_config under a fixed configuration
NextConc == \E t \in Threads : Call(t) \/ Body(t) \/ Store(t)

SpecConc == Init /\ [][NextConc]_vars

\* one thread loads a fixed configuration
NextLoad == Call(1) \/ Body(1) \/ Store(1)

InitMerge ==
    /\ conf_alias \in Lists(MergeEntries, MaxMergeEntries)
    /\ pci_in_placement \in BOOLEAN
    /\ InitProcess
    /\ InitNoFlavor
    /\ InitNoVif

SpecMerge == InitMerge /\ [][NextLoad]_vars

InitValidate ==
    /\ conf_alias \in Lists(TableEntries, MaxTableEntries)
    /\ pci_in_placement \in BOOLEAN
    /\ InitProcess
    /\ InitNoFlavor
    /\ InitNoVif

SpecValidate == InitValidate /\ [][NextLoad]_vars

InitNames ==
    /\ conf_alias \in Lists(NameEntries, MaxEntries)
    /\ pci_in_placement \in BOOLEAN
    /\ InitProcess
    /\ InitNoFlavor
    /\ InitNoVif

SpecNames == InitNames /\ [][NextLoad]_vars

----------------------------------------------------------------------------
(* get_pci_requests_from_flavor *)

\* the thread that calls get_pci_requests_from_flavor
FlavorThread == 2

\* get_pci_requests_from_flavor(flavor, affinity_policy) up to the cache
\* lookup of the memoized get_alias_from_config, which
\* _translate_alias_to_requests calls first; without the alias extra spec the
\* call returns no request at once.  On a miss the caller goes on with Body
\* and Store like any caller of get_alias_from_config.
GetPciRequestsFromFlavor ==
    /\ flavor_ret.status = "none"
    /\ pc[FlavorThread] = "idle"
    /\ ret[FlavorThread].status = "none"
    /\ IF ~HasAliasSpec(flavor)
       THEN /\ flavor_ret' = [status |-> "ok", requests |-> <<>>,
                              error |-> NoError]
            /\ UNCHANGED <<conf_alias, pci_in_placement, cache, tables, pc,
                           local, late, ret, first_returned>>
            /\ UNCHANGED <<alias_pairs, flavor, affinity_policy, uuid_count,
                           vifVars>>
       ELSE Call(FlavorThread)

\* get_alias_from_config has returned to _translate_alias_to_requests, or
\* raised: the loop over the alias string runs on the table it returned
TranslateReturned ==
    /\ flavor_ret.status = "none"
    /\ pc[FlavorThread] = "idle"
    /\ ret[FlavorThread].status # "none"
    /\ IF ret[FlavorThread].status = "error"
       THEN /\ flavor_ret' = [status |-> "error", requests |-> <<>>,
                              error |-> ret[FlavorThread].error]
            /\ UNCHANGED uuid_count
       ELSE
       LET r == TranslateAliasToRequests(tables[ret[FlavorThread].obj],
                    flavor["extra_specs"][AliasKey], affinity_policy,
                    uuid_count)
       IN /\ r.uuids <= MaxUuids
          /\ uuid_count' = r.uuids
          /\ flavor_ret' = [status |-> r.status, requests |-> r.requests,
                            error |-> r.error]
    /\ UNCHANGED <<conf_alias, pci_in_placement, cache, tables, pc, local,
                   late, ret, first_returned>>
    /\ UNCHANGED <<alias_pairs, flavor, affinity_policy, vifVars>>

\* the flavor whose alias extra spec is the rendering of alias_pairs, or, for
\* no pairs, also a flavor without that extra spec
FlavorsOf(pairs) ==
    {FlavorWith(Render(pairs))}
    \cup (IF pairs = <<>> THEN {FlavorWithout, FlavorOtherSpecs} ELSE {})

InitFlavor ==
    /\ conf_alias \in Lists(FlavorEntries, MaxEntries)
    /\ pci_in_placement \in BOOLEAN
    /\ InitProcess
    /\ alias_pairs \in Lists(FlavorPairs, MaxPairs) \cup LongCountPairs
    /\ flavor \in FlavorsOf(alias_pairs)
    /\ affinity_policy \in {None, "preferred"}
    /\ uuid_count = 0
    /\ flavor_ret = NoFlavorReturn
    /\ InitNoVif

\* one thread translates the flavor while another calls get_alias_from_config
\* once
NextFlavor ==
    \/ GetPciRequestsFromFlavor
    \/ Body(FlavorThread)
    \/ Store(FlavorThread)
    \/ TranslateReturned
    \/ (ret[1].status = "none" /\ Call(1))
    \/ Body(1)
    \/ Store(1)

SpecFlavor == InitFlavor /\ [][NextFlavor]_vars

----------------------------------------------------------------------------
(* get_instance_pci_request_from_vif *)

\* what no step of the call changes
VifCallFrame ==
    /\ UNCHANGED <<conf_alias, pci_in_placement, cache, tables, pc, local,
                   late, ret, first_returned, flavorVars>>
    /\ UNCHANGED <<vif, instance, compute_node>>

\* ReadProfile, but without the early return for a VIF that has no device
\* address
ReadProfileNoEarlyReturn ==
    /\ vif_frame.pc = "start"
    /\ vif_frame' = [vif_frame EXCEPT !.profile = vif.profile,
                                      !.vif_pci_dev_addr = VifPciDevAddr(vif),
                                      !.pc = "lookup"]
    /\ UNCHANGED vif_ret
    /\ VifCallFrame

\* lines 288-292: the device address is read from the VIF's profile; without
\* one the call returns None
ReadProfile ==
    /\ vif_frame.pc = "start"
    /\ LET vif_pci_dev_addr == VifPciDevAddr(vif)
       IN IF vif_pci_dev_addr = None \/ vif_pci_dev_addr = ""
          THEN /\ vif_frame' = [vif_frame EXCEPT !.profile = vif.profile,
                                                 !.pc = "done"]
               /\ vif_ret' = VifOutcome("ok", "None", NoRequest, NoVifError,
                                        FALSE, FALSE, FALSE)
          ELSE /\ vif_frame' = [vif_frame EXCEPT
                                   !.profile = vif.profile,
                                   !.vif_pci_dev_addr = vif_pci_dev_addr,
                                   !.pc = "lookup"]
               /\ UNCHANGED vif_ret
    /\ VifCallFrame

\* lines 294-303: ComputeNode.get_by_host_and_nodename answers; NotFound makes
\* the call return None
LookupComputeNode ==
    /\ vif_frame.pc = "lookup"
    /\ IF ~compute_node.found
       THEN /\ vif_frame' = [vif_frame EXCEPT !.pc = "done"]
            /\ vif_ret' = VifOutcome("ok", "None", NoRequest, NoVifError,
                                     TRUE, FALSE, FALSE)
       ELSE /\ vif_frame' = [vif_frame EXCEPT !.cn_id = compute_node.id,
                                              !.pc = "devices"]
            /\ UNCHANGED vif_ret
    /\ VifCallFrame

\* lines 306-314: the loop over instance.pci_devices stops at the first device
\* on the node at the address; without one the call returns None
FindPciDevice ==
    /\ vif_frame.pc = "devices"
    /\ LET pci_devices == instance.pci_devices
           d == FirstIndex({i \in 1..Len(pci_devices) :
                   /\ pci_devices[i].compute_node_id = vif_frame.cn_id
                   /\ pci_devices[i].address = vif_frame.vif_pci_dev_addr})
       IN IF d = 0
          THEN /\ vif_frame' = [vif_frame EXCEPT !.pci_devices = pci_devices,
                                                 !.pc = "done"]
               /\ vif_ret' = VifOutcome("ok", "None", NoRequest, NoVifError,
                                        TRUE, TRUE, FALSE)
          ELSE /\ vif_frame' = [vif_frame EXCEPT
                                   !.pci_devices = pci_devices,
                                   !.found_pci_dev = pci_devices[d],
                                   !.pc = "requests"]
               /\ UNCHANGED vif_ret
    /\ VifCallFrame

\* FindPciRequest, but a device whose request is missing gives None
FindPciRequestMissingIsNone ==
    /\ vif_frame.pc = "requests"
    /\ LET requests == instance.pci_requests
           r == FirstIndex({i \in 1..Len(requests) :
                   requests[i].request_id = vif_frame.found_pci_dev.request_id})
       IN /\ vif_frame' = [vif_frame EXCEPT !.pci_requests = requests,
                                            !.pc = "done"]
          /\ vif_ret' =
                IF r # 0
                THEN VifOutcome("ok", "request", requests[r], NoVifError,
                                TRUE, TRUE, TRUE)
                ELSE VifOutcome("ok", "None", NoRequest, NoVifError,
                                TRUE, TRUE, TRUE)
    /\ VifCallFrame

\* lines 315-321: the loop over instance.pci_requests.requests returns the
\* first request with the device's request_id; without one the call raises
FindPciRequest ==
    /\ vif_frame.pc = "requests"
    /\ LET requests == instance.pci_requests
           r == FirstIndex({i \in 1..Len(requests) :
                   requests[i].request_id = vif_frame.found_pci_dev.request_id})
       IN /\ vif_frame' = [vif_frame EXCEPT !.pci_requests = requests,
                                            !.pc = "done"]
          /\ vif_ret' =
                IF r # 0
                THEN VifOutcome("ok", "request", requests[r], NoVifError,
                                TRUE, TRUE, TRUE)
                ELSE VifOutcome("error", "None", NoRequest,
                                [exc |-> "PciRequestFromVIFNotFound",
                                 pci_slot |-> vif_frame.vif_pci_dev_addr,
                                 node_id |-> vif_frame.cn_id],
                                TRUE, TRUE, TRUE)
    /\ VifCallFrame

\* what no writer of the VIF or the instance changes
VifWriterFrame ==
    /\ UNCHANGED <<conf_alias, pci_in_placement, cache, tables, pc, local,
                   late, ret, first_returned, flavorVars>>
    /\ UNCHANGED <<compute_node, vif_frame, vif_ret>>

\* while the call runs, another thread sets vif["profile"] = None
ClearProfile ==
    /\ vif_frame.pc # "done"
    /\ vif.profile # ProfileNone
    /\ vif' = [vif EXCEPT !.profile = ProfileNone]
    /\ UNCHANGED instance
    /\ VifWriterFrame

\* while the call runs, another thread binds one more device to the instance
BindDevice(d) ==
    /\ vif_frame.pc # "done"
    /\ Len(instance.pci_devices) < MaxDevices
    /\ instance' = [instance EXCEPT !.pci_devices = Append(@, d)]
    /\ UNCHANGED vif
    /\ VifWriterFrame

InitVif ==
    /\ conf_alias = <<>>
    /\ pci_in_placement = FALSE
    /\ InitProcess
    /\ InitNoFlavor
    /\ vif \in Vifs
    /\ instance \in [pci_devices : Lists(PciDevices, MaxDevices),
                      pci_requests : Lists(InstanceRequests, MaxRequests)]
    /\ compute_node \in ComputeNodes
    /\ vif_frame = NoVifFrame
    /\ vif_ret = NoVifReturn

\* while the call runs, another thread adds a request to the instance
AddRequest(r) ==
    /\ vif_frame.pc # "done"
    /\ Len(instance.pci_requests) < MaxRequests
    /\ instance' = [instance EXCEPT !.pci_requests = Append(@, r)]
    /\ UNCHANGED vif
    /\ VifWriterFrame

NextVif ==
    \/ ReadProfile
    \/ LookupComputeNode
    \/ FindPciDevice
    \/ FindPciRequest
    \/ ClearProfile
    \/ \E d \in PciDevices : BindDevice(d)
    \/ \E r \in InstanceRequests : AddRequest(r)

SpecVif == InitVif /\ [][NextVif]_vars

----------------------------------------------------------------------------
(* Claims about the memoization *)

Loadable == GetAliasFromConfigBody(conf_alias, pci_in_placement).status = "ok"

\* C1: in a sequence of get_alias_from_config calls, every call that begins
\* after a call has returned a table returns that same table object, and does
\* so without running the wrapped function again (it never enters the body,
\* never fails, and no second table object is ever built), whatever
\* [pci]alias and pci_in_placement are by then.
C1_LaterCallsReturnFirstTable ==
    /\ \A t \in Threads :
          /\ ret[t].late =>
                 /\ ret[t].status = "ok"
                 /\ ret[t].obj = first_returned
                 /\ ~ret[t].computed
          /\ pc[t] # "idle" => ~late[t]
    /\ first_returned # 0 => cache = first_returned /\ Len(tables) = 1

\* a later call returned the cached table although the configuration at the
\* time no longer loads
C1_Witness ==
    /\ ret[1].late
    /\ ret[1].status = "ok"
    /\ pc[1] = "idle"
    /\ ~Loadable
    /\ tables[ret[1].obj] # <<>>

\* C2: a failing get_alias_from_config call returns no table and leaves the
\* cache empty, so the next call runs the wrapped function on the
\* configuration of that time: it fails again with that configuration's error
\* if the configuration still does not load, and if it loads the call succeeds
\* and returns a new table equal to the table of that configuration.
C2_FailureIsNotCached ==
    /\ [](\A t \in Threads :
             ret[t].status = "error" =>
                 /\ ret[t].obj = 0
                 /\ cache = 0
                 /\ pc[t] = "idle" => tables = <<>>)
    /\ [][\A t \in Threads :
             (ret[t].status = "error" /\ pc[t] # "idle" /\ pc'[t] = "idle") =>
                 LET r == GetAliasFromConfigBody(conf_alias, pci_in_placement)
                 IN /\ ret'[t].computed
                    /\ ret'[t].status = r.status
                    /\ ret'[t].error = r.error
                    /\ r.status = "ok" =>
                          /\ cache' = ret'[t].obj
                          /\ tables'[ret'[t].obj] = r.aliases]_vars

\* a call failed, the configuration was corrected, and the next call returned
\* a non-empty table
C2_Witness ==
    /\ ret[1].status = "ok"
    /\ ret[1].prev = "error"
    /\ ret[1].computed
    /\ tables[ret[1].obj] # <<>>

\* C3: when several threads call get_alias_from_config concurrently, the
\* table is computed to success exactly once and every caller receives the
\* same table object.
C3_OneComputationOneTable ==
    /\ Len(tables) <= 1
    /\ \A t, u \in Threads :
          (ret[t].status = "ok" /\ ret[u].status = "ok") =>
              ret[t].obj = ret[u].obj

----------------------------------------------------------------------------
(* Claims about merging same-named entries *)

\* the first call of thread 1 on the fixed configuration has completed
Loaded == ret[1].status # "none" /\ ret[1].computed

NameOf(raw) == Strip(raw["name"])
NumaOf(raw) == IF "numa_policy" \in DOMAIN raw THEN raw["numa_policy"] ELSE "legacy"
DevOf(raw) == IF "device_type" \in DOMAIN raw THEN raw["device_type"] ELSE "omitted"

\* the spec an entry contributes: the entry without name and numa_policy,
\* device_type renamed to dev_type
SpecOf(raw) ==
    LET rest == Without(raw, {"name", "numa_policy", "device_type"})
    IN IF "device_type" \in DOMAIN raw
       THEN rest @@ ("dev_type" :> raw["device_type"])
       ELSE rest

\* C4: two schema-valid entries with the same name, the same numa_policy
\* (missing = legacy) and the same dev_type (same value, or omitted in both)
\* that pass the validator with strict mode off load successfully into one
\* alias whose spec list is the two specs in input order.
C4_SameNamedEntriesAreMerged ==
    ( /\ Loaded
      /\ ~pci_in_placement
      /\ Len(conf_alias) = 2
      /\ NameOf(conf_alias[1]) = NameOf(conf_alias[2])
      /\ NumaOf(conf_alias[1]) = NumaOf(conf_alias[2])
      /\ DevOf(conf_alias[1]) = DevOf(conf_alias[2])
      /\ HasIds(conf_alias[1]) /\ HasIds(conf_alias[2]) )
    => /\ ret[1].status = "ok"
       /\ tables[ret[1].obj] =
              << [name |-> NameOf(conf_alias[1]),
                  numa_policy |-> NumaOf(conf_alias[1]),
                  specs |-> <<SpecOf(conf_alias[1]), SpecOf(conf_alias[2])>>] >>

\* the entries i < j of the configuration have the same name but a different
\* numa_policy or dev_type
Conflict(i, j) ==
    /\ NameOf(conf_alias[i]) = NameOf(conf_alias[j])
    /\ \/ NumaOf(conf_alias[i]) # NumaOf(conf_alias[j])
       \/ DevOf(conf_alias[i]) # DevOf(conf_alias[j])

\* C5: a configuration of schema-valid entries in which two entries have the
\* same name but a different numa_policy (after defaulting) or dev_type fails
\* to load with PciInvalidAlias whose reason is the mismatch message naming
\* such an alias; so in every table returned all specs of an alias have the
\* same dev_type.
C5_ConflictingEntriesAreRejected ==
    /\ ( /\ Loaded
         /\ \E i, j \in 1..Len(conf_alias) : i < j /\ Conflict(i, j) )
       => /\ ret[1].status = "error"
          /\ ret[1].error.exc = "PciInvalidAlias"
          /\ ret[1].error.fmt \in {NumaMismatchFmt, DevTypeMismatchFmt}
          /\ \E i, j \in 1..Len(conf_alias) :
                i < j /\ Conflict(i, j)
                /\ ret[1].error.arg = NameOf(conf_alias[i])
    /\ ret[1].status = "ok" =>
          \A k \in 1..Len(tables[ret[1].obj]) :
              LET specs == tables[ret[1].obj][k].specs
              IN \A m, n \in 1..Len(specs) :
                    /\ "dev_type" \in DOMAIN specs[m] <=> "dev_type" \in DOMAIN specs[n]
                    /\ "dev_type" \in DOMAIN specs[m] =>
                           specs[m]["dev_type"] = specs[n]["dev_type"]

----------------------------------------------------------------------------
(* Claims about the table validators *)

\* the distinct names of the entries, in order of first occurrence
RECURSIVE FirstOccurrences(_, _)
FirstOccurrences(entries, seen) ==
    IF entries = <<>> THEN <<>>
    ELSE LET n == NameOf(Head(entries))
         IN IF n \in seen THEN FirstOccurrences(Tail(entries), seen)
            ELSE <<n>> \o FirstOccurrences(Tail(entries), seen \cup {n})

EntriesNamed(n) == {i \in 1..Len(conf_alias) : NameOf(conf_alias[i]) = n}

DeclaredTwice(n) == Cardinality(EntriesNamed(n)) > 1

Merges == MergeAliases(conf_alias).status = "ok"

\* C6: in strict mode, loading a configuration that merges into a table with
\* an alias of more than one spec fails with PciInvalidAlias carrying the
\* multiple-specs message with every such alias name, comma-joined in order
\* of first insertion; no table loaded in strict mode has an alias with more
\* than one spec.
C6_StrictModeRejectsMultipleSpecs ==
    (Loaded /\ pci_in_placement /\ Merges) =>
        /\ (\E i \in 1..Len(conf_alias) : DeclaredTwice(NameOf(conf_alias[i]))) =>
              /\ ret[1].status = "error"
              /\ ret[1].error.exc = "PciInvalidAlias"
              /\ ret[1].error.fmt = MultispecFmt
              /\ ret[1].error.arg =
                     JoinComma(SelectSeq(FirstOccurrences(conf_alias, {}),
                                         DeclaredTwice))
        /\ ret[1].status = "ok" =>
              \A k \in 1..Len(tables[ret[1].obj]) :
                  Len(tables[ret[1].obj][k].specs) = 1

\* strict mode rejected a configuration in which two aliases have two specs
\* each, and one of them also lacks the identifiers
C6_Witness ==
    /\ Loaded
    /\ pci_in_placement
    /\ ret[1].status = "error"
    /\ ret[1].error.fmt = MultispecFmt
    /\ ret[1].error.arg = <<"b", ",", "a">>
    /\ \E i \in 1..Len(conf_alias) :
          ~HasIds(conf_alias[i]) /\ ~HasRc(conf_alias[i])

\* the required-identifier rule for one spec
PassesIdRule(spec, strict) ==
    \/ "vendor_id" \in DOMAIN spec /\ "product_id" \in DOMAIN spec
    \/ strict /\ "resource_class" \in DOMAIN spec

Offenders ==
    {NameOf(conf_alias[i]) : i \in
        {j \in 1..Len(conf_alias) :
            ~PassesIdRule(conf_alias[j], pci_in_placement)}}

\* s lists the strings of S once each, in increasing order
IsSortedListOf(s, S) ==
    /\ Len(s) = Cardinality(S)
    /\ {s[i] : i \in 1..Len(s)} = S
    /\ \A i \in 1..Len(s) - 1 : StrLess(s[i], s[i + 1])

\* the load failed with the required-identifier message of the mode, listing
\* the offending alias names sorted and comma-joined
RejectedForIds ==
    /\ ret[1].status = "error"
    /\ ret[1].error.exc = "PciInvalidAlias"
    /\ ret[1].error.fmt = (IF pci_in_placement THEN NoIdsOrRcFmt ELSE NoIdsFmt)
    /\ \E s \in [1..Cardinality(Offenders) -> Offenders] :
          /\ IsSortedListOf(s, Offenders)
          /\ ret[1].error.arg = JoinComma(s)

\* every spec of every alias of the returned table passes the rule
ReturnedSpecsPass ==
    \A k \in 1..Len(tables[ret[1].obj]) :
        \A n \in 1..Len(tables[ret[1].obj][k].specs) :
            PassesIdRule(tables[ret[1].obj][k].specs[n], pci_in_placement)

\* some alias of the merged table has more than one spec, in strict mode
MultispecRejects ==
    ValidateMultispec(MergeAliases(conf_alias).aliases,
                      pci_in_placement).status = "error"

\* C7 as claimed: a table computation succeeds only if every spec of every
\* alias passes the required-identifier rule (vendor_id and product_id, or in
\* strict mode only a resource_class); otherwise it fails with PciInvalidAlias
\* listing the offending alias names sorted and comma-joined.
C7_Original ==
    Loaded =>
        /\ ret[1].status = "ok" => ReturnedSpecsPass
        /\ (Merges /\ Offenders # {}) => RejectedForIds

\* C7, amended: a table computation succeeds only if every spec of every
\* alias passes the required-identifier rule; when a spec does not pass, it
\* fails with PciInvalidAlias listing the offending alias names sorted and
\* comma-joined, unless in strict mode some alias has more than one spec: then
\* it fails with the multiple-specs message of _validate_multispec instead.
C7_RequiredIdentifiers ==
    Loaded =>
        /\ ret[1].status = "ok" => ReturnedSpecsPass
        /\ (Merges /\ Offenders # {} /\ ~MultispecRejects) => RejectedForIds
        /\ (Merges /\ Offenders # {} /\ MultispecRejects) =>
              /\ ret[1].status = "error"
              /\ ret[1].error.exc = "PciInvalidAlias"
              /\ ret[1].error.fmt = MultispecFmt

\* with strict mode off, the load failed naming a and b, sorted, where b was
\* declared first and one of the offending specs has a resource_class
C7_Witness ==
    /\ Loaded
    /\ ~pci_in_placement
    /\ ret[1].status = "error"
    /\ ret[1].error.fmt = NoIdsFmt
    /\ ret[1].error.arg = <<"a", ",", "b">>
    /\ NameOf(conf_alias[1]) = NameB
    /\ \E i \in 1..Len(conf_alias) : HasRc(conf_alias[i])

\* C13: every key of every table that get_alias_from_config returns, for
\* every configuration it accepts, is a string of at least NameMinLength and
\* at most NameMaxLength characters.
C13_KeysAreNames ==
    (Loaded /\ ret[1].status = "ok")
    => \A k \in 1..Len(tables[ret[1].obj]) :
          /\ Len(tables[ret[1].obj][k].name) >= NameMinLength
          /\ Len(tables[ret[1].obj][k].name) <= NameMaxLength

----------------------------------------------------------------------------
(* Claims about the translator *)

\* the call made for the flavor's alias extra spec has returned or raised, and
\* get_alias_from_config had a table for it
Translated ==
    /\ flavor_ret.status # "none"
    /\ HasAliasSpec(flavor)
    /\ ret[FlavorThread].status = "ok"

\* the table get_alias_from_config gave the translator
FlavorTable == tables[ret[FlavorThread].obj]

\* what the writer of the flavor means by the names and counts
TrimmedName(n) ==
    CASE n = NamePaddedB -> NameB
      [] n = NamePaddedZ -> <<"z">>
      [] OTHER -> n

IsCount(c) == c \in {<<"2">>, CountPadded, <<"0">>}

CountValue(c) ==
    CASE c = <<"2">> -> 2
      [] c = CountPadded -> 3
      [] c = <<"0">> -> 0

WellFormed(pair) == Len(pair) = 2 /\ IsCount(pair[2])

Defined(n) ==
    \E k \in 1..Len(FlavorTable) : FlavorTable[k].name = TrimmedName(n)

AliasNamed(n) ==
    FlavorTable[CHOOSE k \in 1..Len(FlavorTable) :
                      FlavorTable[k].name = TrimmedName(n)]

\* C8: for an alias string of n >= 1 well-formed name:count pairs whose
\* trimmed names are all defined, the translation returns n requests in the
\* order of the pairs; the i-th has the i-th count, the i-th trimmed name, the
\* spec list of that alias, the override as numa_policy if one is given and
\* the alias's policy otherwise, and a request_id no other request has.
C8_TranslationOfDefinedPairs ==
    ( /\ Translated
      /\ alias_pairs # <<>>
      /\ \A i \in 1..Len(alias_pairs) :
            WellFormed(alias_pairs[i]) /\ Defined(alias_pairs[i][1]) )
    => /\ flavor_ret.status = "ok"
       /\ Len(flavor_ret.requests) = Len(alias_pairs)
       /\ \A i \in 1..Len(alias_pairs) :
             LET req == flavor_ret.requests[i]
                 alias == AliasNamed(alias_pairs[i][1])
             IN /\ req.count = CountValue(alias_pairs[i][2])
                /\ req.alias_name = TrimmedName(alias_pairs[i][1])
                /\ req.spec = alias.specs
                /\ req.numa_policy =
                       (IF affinity_policy # None THEN affinity_policy
                        ELSE alias.numa_policy)
       /\ \A i, j \in 1..Len(flavor_ret.requests) :
             i # j => flavor_ret.requests[i].request_id
                          # flavor_ret.requests[j].request_id

\* " b : \u06f3,a:2" was translated without an override against a table in which
\* a has policy required and b has policy legacy
C8_Witness ==
    /\ Translated
    /\ affinity_policy = None
    /\ alias_pairs = <<<<NamePaddedB, CountPadded>>, <<NameA, <<"2">>>>>>
    /\ flavor_ret.status = "ok"
    /\ Len(flavor_ret.requests) = 2
    /\ flavor_ret.requests[1].numa_policy = "legacy"
    /\ flavor_ret.requests[2].numa_policy = "required"
    /\ flavor_ret.requests[1].request_id # flavor_ret.requests[2].request_id

\* the k-th pair names an undefined alias and the pairs before it are well
\* formed and defined
UndefinedAt(k) ==
    /\ Len(alias_pairs[k]) = 2
    /\ ~Defined(alias_pairs[k][1])
    /\ \A i \in 1..(k - 1) :
          WellFormed(alias_pairs[i]) /\ Defined(alias_pairs[i][1])

\* C9: when a pair names an alias that is not in the table and every pair
\* before it is well formed and defined, get_pci_requests_from_flavor raises
\* PciRequestAliasNotDefined for that trimmed name and returns no request.
C9_UndefinedAliasIsRejected ==
    \A k \in 1..Len(alias_pairs) :
        (Translated /\ UndefinedAt(k)) =>
            /\ flavor_ret.status = "error"
            /\ flavor_ret.error.exc = "PciRequestAliasNotDefined"
            /\ flavor_ret.error.arg = TrimmedName(alias_pairs[k][1])
            /\ flavor_ret.requests = <<>>

\* "a:2,z :x" was rejected for z after a request for a had been built (a uuid
\* was generated), although the count of z is no integer
C9_Witness ==
    /\ Translated
    /\ alias_pairs = <<<<NameA, <<"2">>>>, <<NamePaddedZ, <<"x">>>>>>
    /\ flavor_ret.status = "error"
    /\ flavor_ret.error.arg = <<"z">>
    /\ uuid_count = 1

\* C12: every request the translation emits, for every alias string it
\* accepts, has a count that is an integer of at least 1.
C12_CountsArePositive ==
    (Translated /\ flavor_ret.status = "ok")
    => \A i \in 1..Len(flavor_ret.requests) :
          /\ flavor_ret.requests[i].count \in Int
          /\ flavor_ret.requests[i].count >= 1

----------------------------------------------------------------------------
(* Claims about the binding resolver *)

\* the profile has no pci_slot or an empty one, or the VIF has no profile
NoDeviceAddress(profile) ==
    \/ profile.type = "NoneType"
    \/ "pci_slot" \notin DOMAIN profile.items
    \/ profile.items["pci_slot"] = ""

\* the call has ended
Resolved == vif_frame.pc = "done"

\* C10: for a VIF without a device address get_instance_pci_request_from_vif
\* returns None and raises nothing, whatever the instance's devices and
\* requests and the compute-node lookup would give, and it neither performs
\* the lookup nor reads the two lists.  The VIF is the one the call read.
C10_NoAddressNoRequest ==
    (Resolved /\ NoDeviceAddress(vif_frame.profile)) =>
        /\ vif_ret.status = "ok"
        /\ vif_ret.value = "None"
        /\ ~vif_ret.looked_up
        /\ ~vif_ret.read_devices
        /\ ~vif_ret.read_requests

\* None was returned for a VIF with an empty pci_slot although the compute
\* node exists and the instance has a device on it without a request
C10_Witness ==
    /\ Resolved
    /\ vif_ret.status = "ok"
    /\ vif_ret.value = "None"
    /\ vif_frame.profile.type = "dict"
    /\ "pci_slot" \in DOMAIN vif_frame.profile.items
    /\ compute_node.found
    /\ instance.pci_requests = <<>>
    /\ \E i \in 1..Len(instance.pci_devices) :
          instance.pci_devices[i].compute_node_id = compute_node.id
    /\ ~vif_ret.looked_up

\* the device address of a profile that has one
AddressOf(profile) == profile.items["pci_slot"]

\* the device list the call read, and the request list it read
DevicesRead == vif_frame.pci_devices
RequestsRead == vif_frame.pci_requests

\* the i-th device read is on the looked-up compute node at the address of
\* the VIF the call read
DeviceMatches(i) ==
    /\ DevicesRead[i].compute_node_id = compute_node.id
    /\ DevicesRead[i].address = AddressOf(vif_frame.profile)

\* the i-th device read is the first, in list order, that matches
FirstMatch(i) ==
    /\ i \in 1..Len(DevicesRead)
    /\ DeviceMatches(i)
    /\ \A j \in 1..(i - 1) : ~DeviceMatches(j)

\* the call has ended for a VIF with a device address and a compute node that
\* the lookup finds
ResolvedOnNode ==
    /\ Resolved
    /\ ~NoDeviceAddress(vif_frame.profile)
    /\ compute_node.found

\* C11: when the VIF has a device address, the compute node is found and the
\* first bound device at that node and address has a request_id that no
\* request of the instance carries, the call raises
\* PciRequestFromVIFNotFound with that address and node id; it returns
\* neither None nor a request.  VIF, devices and requests are those the call
\* read.
C11_DeviceWithoutRequestRaises ==
    \A d \in 1..Len(DevicesRead) :
        ( /\ ResolvedOnNode
          /\ FirstMatch(d)
          /\ \A r \in 1..Len(RequestsRead) :
                RequestsRead[r].request_id # DevicesRead[d].request_id )
        => /\ vif_ret.status = "error"
           /\ vif_ret.error.exc = "PciRequestFromVIFNotFound"
           /\ vif_ret.error.pci_slot = AddressOf(vif_frame.profile)
           /\ vif_ret.error.node_id = compute_node.id
           /\ vif_ret.value = "None"
           /\ vif_ret.request = NoRequest

\* the call raised for the first matching device, whose request r2 is
\* missing, although a second matching device has a request in the list
C11_Witness ==
    /\ ResolvedOnNode
    /\ vif_ret.status = "error"
    /\ Len(DevicesRead) = 2
    /\ DeviceMatches(1) /\ DeviceMatches(2)
    /\ DevicesRead[1].request_id = "r2"
    /\ DevicesRead[2].request_id = "r1"
    /\ \E r \in 1..Len(RequestsRead) : RequestsRead[r].request_id = "r1"

\* the i-th request read is the first, in list order, that carries request_id
\* id
FirstRequestWith(i, id) ==
    /\ i \in 1..Len(RequestsRead)
    /\ RequestsRead[i].request_id = id
    /\ \A j \in 1..(i - 1) : RequestsRead[j].request_id # id

\* C14: with a device address and a compute node that is found, the call
\* decides on the first bound device, in list order, at that node and
\* address: it returns None when no device matches, and otherwise the first
\* request, in list order, with that device's request_id; later matching
\* devices have no influence on the result.  VIF, devices and requests are
\* those the call read.
C14_FirstMatchingDeviceDecides ==
    ResolvedOnNode =>
        /\ (\A i \in 1..Len(DevicesRead) : ~DeviceMatches(i))
              => /\ vif_ret.status = "ok"
                 /\ vif_ret.value = "None"
                 /\ vif_ret.request = NoRequest
        /\ \A d \in 1..Len(DevicesRead) :
           \A r \in 1..Len(RequestsRead) :
              ( /\ FirstMatch(d)
                /\ FirstRequestWith(r, DevicesRead[d].request_id) )
              => /\ vif_ret.status = "ok"
                 /\ vif_ret.value = "request"
                 /\ vif_ret.request = RequestsRead[r]

\* two devices match, with different request_ids, two requests carry the
\* first device's request_id under different alias names, and the call
\* returned the first of them
C14_Witness ==
    /\ ResolvedOnNode
    /\ Len(DevicesRead) = 2
    /\ DeviceMatches(1) /\ DeviceMatches(2)
    /\ DevicesRead[1].request_id = "r1"
    /\ DevicesRead[2].request_id = "r2"
    /\ Len(RequestsRead) = 2
    /\ RequestsRead[1].request_id = "r1"
    /\ RequestsRead[2].request_id = "r1"
    /\ RequestsRead[1].alias_name # RequestsRead[2].alias_name
    /\ vif_ret.status = "ok"
    /\ vif_ret.value = "request"
    /\ vif_ret.request = RequestsRead[1]

====
